---- MODULE Spec2Model ----
(***************************************************************************)
(* Model of internal/rollouts/options.go: the AnalysisRunOptions           *)
(* accumulator, its Apply loop and the four AnalysisRunOption variants.    *)
(*                                                                         *)
(* Go strings are sequences of one-character strings.  A Go map is a heap  *)
(* object: a map-typed value is a reference (an element of MapIds) or nil, *)
(* and heap[m] holds the entries of the object m.                          *)
(***************************************************************************)
EXTENDS Integers, Sequences, FiniteSets, TLC

VARIABLES
  accs,      \* accs[x]: the AnalysisRunOptions struct of build x
  heap,      \* heap[m]: the entries of the map object m
  pc,        \* "idle", or "loop" while Apply is running
  recv,      \* the receiver o of the running (or last) Apply
  opts,      \* its parameter opts
  idx,       \* the position of its range loop
  done,      \* the options it has dispatched so far
  entry,     \* the accumulators and the heap when it was called
  labelLog,  \* labelLog[x]: the WithExtraLabels options applied to x so far,
             \*   each with the entries its map held when it was applied
  ownerLog,  \* ownerLog[x]: the payloads of the WithOwner options applied to x
  nApplied,  \* number of options passed to Apply so far
  panicked   \* a runtime panic has happened

vars == <<accs, heap, pc, recv, opts, idx, done, entry, labelLog, ownerLog,
          nApplied, panicked>>

(***************************************************************************)
(* Program constants (options.go:9-21).                                    *)
(***************************************************************************)
ulidLength == 26

maxNameSuffixLength == 7

maxNamePrefixLength == 253 - (1 + ulidLength) - (1 + maxNameSuffixLength)

(***************************************************************************)
(* Bounds of the model.                                                    *)
(***************************************************************************)
\* Total number of options handed to Apply over a behaviour.
MaxApplied == 3

\* The accumulators the caller builds (two independent builds).
Accs == {"x", "y"}

\* The map objects the caller has constructed, and the nil map.
MapIds == {"m1", "m2", "m3"}

NIL == "nil"

(***************************************************************************)
(* Strings and the input payloads.                                         *)
(***************************************************************************)
Rep(c, n) == [i \in 1..n |-> c]

Letters == <<"a", "b", "c", "d", "e", "f", "g", "h", "i", "j">>

\* A string of length n whose characters vary with the position.
Pat(n) == [i \in 1..n |-> Letters[((i - 1) % 10) + 1]]

EmptyMap == [k \in {} |-> "0"]

\* The entries the caller put into each map object when constructing it.
Literal(m) ==
  CASE m = "m1" -> ("a" :> "1")
    [] m = "m2" -> ("a" :> "2") @@ ("b" :> "3")
    [] OTHER    -> EmptyMap

PrefixInputs ==
  { <<"k", "a", "r", "g", "o">>, Pat(218), Pat(219), Rep("x", 260) }

SuffixInputs ==
  { <<"a", "b", "c">>,
    <<"a", "b", "c", "d", "e", "f", "g">>,
    <<"a", "b", "c", "d", "e", "f", "1", "2">> }

MkOwner(api, kind, ns, name, block) ==
  [APIVersion |-> api, Kind |-> kind,
   Reference |-> [Namespace |-> ns, Name |-> name], BlockDeletion |-> block]

OwnerInputs ==
  { MkOwner("kargo.akuity.io/v1alpha1", "Stage", "ns", "stage", TRUE),
    MkOwner("", "", "", "", FALSE) }

\* An AnalysisRunOption value: the dynamic type and the payload.
Option(kind, val) == [kind |-> kind, val |-> val]

Options ==
       { Option("WithNamePrefix", s) : s \in PrefixInputs }
  \cup { Option("WithNameSuffix", s) : s \in SuffixInputs }
  \cup { Option("WithExtraLabels", m) : m \in MapIds \cup {NIL} }
  \cup { Option("WithOwner", w) : w \in OwnerInputs }

OptionSeqs(n) == UNION { [1..k -> Options] : k \in 0..n }

(***************************************************************************)
(* The accumulator and the Go primitives the code uses.                    *)
(***************************************************************************)
\* The zero value of the struct AnalysisRunOptions.
AnalysisRunOptions ==
  [NamePrefix |-> <<>>, NameSuffix |-> <<>>, ExtraLabels |-> NIL, Owners |-> <<>>]

\* Execution state of one ApplyToAnalysisRun: the accumulator *opts, the map
\* heap, and whether the goroutine has panicked.
St(o, h, p) == [o |-> o, h |-> h, p |-> p]

\* Go's s[lo:hi] on a string (lo counted from 0): panics unless
\* 0 <= lo <= hi <= len(s).
SliceOK(s, lo, hi) == 0 <= lo /\ lo <= hi /\ hi <= Len(s)

Slice(s, lo, hi) == SubSeq(s, lo + 1, hi)

\* The entries a range over the map value m visits (none for a nil map).
Entries(h, m) == IF m = NIL THEN EmptyMap ELSE h[m]

\* Faulty variant: maps.Copy keeping the destination's value for a key both hold.
MapsCopy_KeepExisting(dst, src) ==
  [k \in (DOMAIN dst) \cup (DOMAIN src) |->
     IF k \in DOMAIN dst THEN dst[k] ELSE src[k]]

\* maps.Copy(dst, src) on the contents: every entry of src is written into
\* dst, overwriting an entry with the same key.
MapsCopy(dst, src) ==
  [k \in (DOMAIN dst) \cup (DOMAIN src) |->
     IF k \in DOMAIN src THEN src[k] ELSE dst[k]]

\* maps.Copy(dst, src) on map values: a write into a nil map panics, which
\* happens as soon as src has an entry to write.
MapsCopyPanics(h, dst, src) == dst = NIL /\ DOMAIN Entries(h, src) # {}

MapsCopyHeap(h, dst, src) ==
  IF dst = NIL THEN h ELSE [h EXCEPT ![dst] = MapsCopy(h[dst], Entries(h, src))]

(***************************************************************************)
(* The option variants.  Each takes the option's payload o and the         *)
(* execution state st (st.o is *opts) and yields the state it leaves.      *)
(***************************************************************************)
\* Faulty variant: keeps the trailing instead of the leading characters.
WithNamePrefix_TakeTail(o, st) ==
  IF Len(o) > maxNamePrefixLength
    THEN St([st.o EXCEPT !.NamePrefix =
                           Slice(o, Len(o) - maxNamePrefixLength, Len(o))],
            st.h, st.p)
    ELSE St([st.o EXCEPT !.NamePrefix = o], st.h, st.p)

WithNamePrefix_ApplyToAnalysisRun(o, st) ==
  IF Len(o) > maxNamePrefixLength
    THEN IF SliceOK(o, 0, maxNamePrefixLength)
           THEN St([st.o EXCEPT !.NamePrefix = Slice(o, 0, maxNamePrefixLength)],
                   st.h, st.p)
           ELSE St(st.o, st.h, TRUE)
    ELSE St([st.o EXCEPT !.NamePrefix = o], st.h, st.p)

\* Faulty variant: the suffix is stored without the length check.
WithNameSuffix_NoTruncate(o, st) ==
  St([st.o EXCEPT !.NameSuffix = o], st.h, st.p)

\* Faulty variant: an over-long suffix is cut one character too short.
WithNameSuffix_ShortByOne(o, st) ==
  IF Len(o) > maxNameSuffixLength
    THEN St([st.o EXCEPT !.NameSuffix = Slice(o, 0, maxNameSuffixLength - 1)],
            st.h, st.p)
    ELSE St([st.o EXCEPT !.NameSuffix = o], st.h, st.p)

WithNameSuffix_ApplyToAnalysisRun(o, st) ==
  IF Len(o) > maxNameSuffixLength
    THEN IF SliceOK(o, 0, maxNameSuffixLength)
           THEN St([st.o EXCEPT !.NameSuffix = Slice(o, 0, maxNameSuffixLength)],
                   st.h, st.p)
           ELSE St(st.o, st.h, TRUE)
    ELSE St([st.o EXCEPT !.NameSuffix = o], st.h, st.p)

\* Faulty variant: the field is assigned whether or not it is already set.
WithExtraLabels_AlwaysAssign(o, st) ==
  St([st.o EXCEPT !.ExtraLabels = o], st.h, st.p)

\* Faulty variant: the nil check is missing, maps.Copy runs on an unset field too.
WithExtraLabels_NoNilCheck(o, st) ==
  St(st.o, MapsCopyHeap(st.h, st.o.ExtraLabels, o),
     st.p \/ MapsCopyPanics(st.h, st.o.ExtraLabels, o))

\* Faulty variant: maps.Copy with its arguments swapped, writing into the option.
WithExtraLabels_CopyIntoOption(o, st) ==
  IF st.o.ExtraLabels # NIL
    THEN St(st.o, MapsCopyHeap(st.h, o, st.o.ExtraLabels),
            st.p \/ MapsCopyPanics(st.h, o, st.o.ExtraLabels))
    ELSE St([st.o EXCEPT !.ExtraLabels = o], st.h, st.p)

\* Faulty variant: the nil check is inverted.
WithExtraLabels_InvertedCheck(o, st) ==
  IF st.o.ExtraLabels = NIL
    THEN St(st.o, MapsCopyHeap(st.h, st.o.ExtraLabels, o),
            st.p \/ MapsCopyPanics(st.h, st.o.ExtraLabels, o))
    ELSE St([st.o EXCEPT !.ExtraLabels = o], st.h, st.p)

WithExtraLabels_ApplyToAnalysisRun(o, st) ==
  IF st.o.ExtraLabels # NIL
    THEN St(st.o, MapsCopyHeap(st.h, st.o.ExtraLabels, o),
            st.p \/ MapsCopyPanics(st.h, st.o.ExtraLabels, o))
    ELSE St([st.o EXCEPT !.ExtraLabels = o], st.h, st.p)

\* Faulty variant: an owner equal to one already present is not appended again.
WithOwner_Dedup(o, st) ==
  IF \E i \in 1..Len(st.o.Owners) : st.o.Owners[i] = o
    THEN st
    ELSE St([st.o EXCEPT !.Owners = Append(st.o.Owners, o)], st.h, st.p)

WithOwner_ApplyToAnalysisRun(o, st) ==
  St([st.o EXCEPT !.Owners = Append(st.o.Owners, o)], st.h, st.p)

\* The interface call opt.ApplyToAnalysisRun(o): dispatch on the dynamic type.
ApplyToAnalysisRun(opt, st) ==
  CASE opt.kind = "WithNamePrefix"  -> WithNamePrefix_ApplyToAnalysisRun(opt.val, st)
    [] opt.kind = "WithNameSuffix"  -> WithNameSuffix_ApplyToAnalysisRun(opt.val, st)
    [] opt.kind = "WithExtraLabels" -> WithExtraLabels_ApplyToAnalysisRun(opt.val, st)
    [] opt.kind = "WithOwner"       -> WithOwner_ApplyToAnalysisRun(opt.val, st)

(***************************************************************************)
(* Apply: the loop `for _, opt := range opts { opt.ApplyToAnalysisRun(o) }`.*)
(* The program is single-threaded: one Apply runs at a time.               *)
(***************************************************************************)
\* Faulty variant: the loop walks the options from the last to the first.
RangeElem_Reversed(os, i) == os[Len(os) + 1 - i]

\* The element the i-th iteration of the range loop visits.
RangeElem(os, i) == os[i]

\* The index the loop moves to after iteration i.
RangeNext(i) == i + 1

Init ==
  /\ accs = [x \in Accs |-> AnalysisRunOptions]
  /\ heap = [m \in MapIds |-> Literal(m)]
  /\ pc = "idle"
  /\ recv = "x"
  /\ opts = <<>>
  /\ idx = 1
  /\ done = <<>>
  /\ entry = [accs |-> [x \in Accs |-> AnalysisRunOptions],
              heap |-> [m \in MapIds |-> Literal(m)]]
  /\ labelLog = [x \in Accs |-> <<>>]
  /\ ownerLog = [x \in Accs |-> <<>>]
  /\ nApplied = 0
  /\ panicked = FALSE

\* The caller invokes x.Apply(os...).
ApplyCall(x, os) ==
  /\ pc = "idle"
  /\ ~panicked
  /\ nApplied + Len(os) <= MaxApplied
  /\ pc' = "loop"
  /\ recv' = x
  /\ opts' = os
  /\ idx' = 1
  /\ done' = <<>>
  /\ entry' = [accs |-> accs, heap |-> heap]
  /\ nApplied' = nApplied + Len(os)
  /\ UNCHANGED <<accs, heap, labelLog, ownerLog, panicked>>

\* One iteration of the loop body.
ApplyStep ==
  /\ pc = "loop"
  /\ ~panicked
  /\ idx <= Len(opts)
  /\ LET opt == RangeElem(opts, idx)
         r   == ApplyToAnalysisRun(opt, St(accs[recv], heap, FALSE))
     IN  /\ accs' = [accs EXCEPT ![recv] = r.o]
         /\ heap' = r.h
         /\ panicked' = r.p
         /\ done' = Append(done, opt)
         /\ labelLog' =
              IF opt.kind = "WithExtraLabels"
                THEN [labelLog EXCEPT ![recv] =
                        Append(@, [id |-> opt.val, entries |-> Entries(heap, opt.val)])]
                ELSE labelLog
         /\ ownerLog' =
              IF opt.kind = "WithOwner"
                THEN [ownerLog EXCEPT ![recv] = Append(@, opt.val)]
                ELSE ownerLog
  /\ idx' = RangeNext(idx)
  /\ UNCHANGED <<pc, recv, opts, entry, nApplied>>

\* The loop is over and Apply returns.
ApplyReturn ==
  /\ pc = "loop"
  /\ ~panicked
  /\ idx > Len(opts)
  /\ pc' = "idle"
  /\ UNCHANGED <<accs, heap, recv, opts, idx, done, entry, labelLog, ownerLog,
                 nApplied, panicked>>

Next ==
  \/ \E x \in Accs : \E os \in OptionSeqs(MaxApplied - nApplied) : ApplyCall(x, os)
  \/ ApplyStep
  \/ ApplyReturn

Spec == Init /\ [][Next]_vars

(***************************************************************************)
(* Auxiliary definitions for the properties.                               *)
(***************************************************************************)
Last(s) == s[Len(s)]

\* The labels a reader of x's ExtraLabels sees.
Labels(x) == Entries(heap, accs[x].ExtraLabels)

\* s cut to at most n leading characters, stated without the code's slicing.
IsCutTo(r, s, n) ==
  /\ Len(s) <= n => r = s
  /\ Len(s) > n  => /\ Len(r) = n
                    /\ \A i \in 1..n : r[i] = s[i]

\* Last-writer-wins union of a sequence of mappings.
RECURSIVE MergeAll(_)
MergeAll(ms) ==
  IF ms = <<>> THEN EmptyMap
  ELSE LET rest == MergeAll(SubSeq(ms, 1, Len(ms) - 1))
           m    == Last(ms)
       IN  [k \in (DOMAIN rest) \cup (DOMAIN m) |->
              IF k \in DOMAIN m THEN m[k] ELSE rest[k]]

\* The entries each WithExtraLabels applied to x held when it was applied.
AppliedEntries(x) == [i \in 1..Len(labelLog[x]) |-> labelLog[x][i].entries]

\* The options one at a time: o1, then o2, ..., then on.
RECURSIVE OneAtATime(_, _)
OneAtATime(st, os) ==
  IF os = <<>> THEN st
  ELSE OneAtATime(ApplyToAnalysisRun(Head(os), st), Tail(os))

\* Position of the last option of the given kind in os, 0 if there is none.
LastOfKind(os, kind) ==
  LET S == { i \in 1..Len(os) : os[i].kind = kind }
  IN  IF S = {} THEN 0 ELSE CHOOSE i \in S : \A j \in S : j <= i

\* x's mapping object is also the ExtraLabels of another accumulator.
Shared(x) ==
  \E y \in Accs \ {x} : accs[y].ExtraLabels = accs[x].ExtraLabels

\* The mapping object m is the ExtraLabels of some accumulator.
Adopted(m) == \E x \in Accs : accs[x].ExtraLabels = m

(***************************************************************************)
(* C1: after any sequence of options on a zero-value accumulator,          *)
(* len(NamePrefix) + 1 + 26 + 1 + len(NameSuffix) <= 253, that is          *)
(* len(NamePrefix) <= 218 and len(NameSuffix) <= 7.                        *)
(***************************************************************************)
C1_NameLengthBound ==
  \A x \in Accs :
    /\ Len(accs[x].NamePrefix) + 1 + 26 + 1 + Len(accs[x].NameSuffix) <= 253
    /\ Len(accs[x].NamePrefix) <= 218
    /\ Len(accs[x].NameSuffix) <= 7

C1_Witness ==
  \E x \in Accs :
    /\ Len(accs[x].NamePrefix) = 218
    /\ Len(accs[x].NameSuffix) = 7
    /\ \E i \in 1..Len(done) : done[i].kind = "WithNamePrefix" /\ Len(done[i].val) = 260
    /\ \E i \in 1..Len(done) : done[i].kind = "WithNameSuffix" /\ Len(done[i].val) = 8

(***************************************************************************)
(* C2: WithNamePrefix(s) sets NamePrefix, whatever it was, to s when       *)
(* len(s) <= 218 and to the first 218 characters of s otherwise; 260 'x'   *)
(* give 218 'x'.                                                           *)
(***************************************************************************)
C2_PrefixTruncation ==
  (done # <<>> /\ Last(done).kind = "WithNamePrefix") =>
     /\ IsCutTo(accs[recv].NamePrefix, Last(done).val, 218)
     /\ Last(done).val = Rep("x", 260) => accs[recv].NamePrefix = Rep("x", 218)

C2_Witness ==
  /\ Len(done) = 2
  /\ done[1] = Option("WithNamePrefix", Pat(219))
  /\ done[2] = Option("WithNamePrefix", Rep("x", 260))
  /\ accs[recv].NamePrefix = Rep("x", 218)

(***************************************************************************)
(* C3: WithNameSuffix(s) sets NameSuffix, whatever it was, to s when       *)
(* len(s) <= 7 and to the first 7 characters of s otherwise; "abcdef12"    *)
(* gives "abcdef1".                                                        *)
(***************************************************************************)
C3_SuffixTruncation ==
  (done # <<>> /\ Last(done).kind = "WithNameSuffix") =>
     /\ IsCutTo(accs[recv].NameSuffix, Last(done).val, 7)
     /\ Last(done).val = <<"a", "b", "c", "d", "e", "f", "1", "2">>
          => accs[recv].NameSuffix = <<"a", "b", "c", "d", "e", "f", "1">>

C3_Witness ==
  /\ Len(done) = 2
  /\ done[1] = Option("WithNameSuffix", <<"a", "b", "c">>)
  /\ done[2] = Option("WithNameSuffix", <<"a", "b", "c", "d", "e", "f", "1", "2">>)
  /\ accs[recv].NameSuffix = <<"a", "b", "c", "d", "e", "f", "1">>

(***************************************************************************)
(* C4 as stated: after WithExtraLabels m1..mn (n >= 1) on an accumulator   *)
(* that started unset, ExtraLabels holds exactly the union of the keys of  *)
(* m1..mn, each key with the value of the last-applied mi containing it.   *)
(* (Each mi is read as it was when it was applied.)                        *)
(***************************************************************************)
C4_Original ==
  \A x \in Accs :
    labelLog[x] # <<>> => Labels(x) = MergeAll(AppliedEntries(x))

(***************************************************************************)
(* C4 amended: the same, for an accumulator whose mapping object is not    *)
(* also the ExtraLabels of another accumulator, each mi being read as it   *)
(* was when it was applied.                                                *)
(***************************************************************************)
C4_MergeUnlessShared ==
  \A x \in Accs :
    (labelLog[x] # <<>> /\ ~Shared(x)) => Labels(x) = MergeAll(AppliedEntries(x))

C4_Witness ==
  \E x \in Accs :
    /\ ~Shared(x)
    /\ Len(labelLog[x]) = 2
    /\ labelLog[x][1].entries = ("a" :> "1")
    /\ labelLog[x][2].entries = ("a" :> "2") @@ ("b" :> "3")
    /\ Labels(x) = ("a" :> "2") @@ ("b" :> "3")

(***************************************************************************)
(* C5: Owners is exactly the sequence of the payloads of the WithOwner     *)
(* options applied so far, in application order, duplicates included.      *)
(***************************************************************************)
C5_OwnersAreAppliedOwners ==
  \A x \in Accs : accs[x].Owners = ownerLog[x]

C5_Witness ==
  \E x \in Accs :
    /\ Len(ownerLog[x]) = 3
    /\ ownerLog[x][1] = ownerLog[x][3]
    /\ ownerLog[x][1] # ownerLog[x][2]
    /\ Len(accs[x].Owners) = 3

(***************************************************************************)
(* C6 as stated: once a WithExtraLabels option (any payload, nil included) *)
(* has been applied to an accumulator, its ExtraLabels is not nil.         *)
(***************************************************************************)
C6_Original ==
  \A x \in Accs : labelLog[x] # <<>> => accs[x].ExtraLabels # NIL

(***************************************************************************)
(* C6 amended: once a WithExtraLabels option with a non-nil payload has    *)
(* been applied to an accumulator, its ExtraLabels is not nil; while only  *)
(* nil payloads have been applied it is still nil.                         *)
(***************************************************************************)
C6_NonNilAfterNonNilPayload ==
  \A x \in Accs :
    /\ (\E i \in 1..Len(labelLog[x]) : labelLog[x][i].id # NIL)
          => accs[x].ExtraLabels # NIL
    /\ (\A i \in 1..Len(labelLog[x]) : labelLog[x][i].id = NIL)
          => accs[x].ExtraLabels = NIL

C6_Witness ==
  \E x \in Accs :
    /\ Len(labelLog[x]) = 3
    /\ labelLog[x][1].id = NIL
    /\ labelLog[x][2].id = "m3"
    /\ labelLog[x][3].id = NIL
    /\ accs[x].ExtraLabels = "m3"

C8_Original ==
  \A m \in MapIds : heap[m] = Literal(m)

(***************************************************************************)
(* C8 amended: an application never changes the options it was given, and  *)
(* it changes a mapping only when that mapping is already the ExtraLabels  *)
(* of the accumulator a WithExtraLabels option is being applied to; a      *)
(* mapping no accumulator has adopted holds what it was constructed with.  *)
(***************************************************************************)
C8_OnlyAdoptedMappingChanges ==
  [][ /\ pc = "loop" => opts' = opts
      /\ \A m \in MapIds :
           /\ heap'[m] # heap[m] =>
                /\ pc = "loop" /\ idx <= Len(opts)
                /\ opts[idx].kind = "WithExtraLabels"
                /\ accs[recv].ExtraLabels = m
                /\ heap'[m] = MergeAll(<<heap[m], Entries(heap, opts[idx].val)>>)
           /\ ~Adopted(m)' => heap'[m] = Literal(m) ]_vars

C8_Witness ==
  /\ accs["x"].ExtraLabels = "m3"
  /\ heap["m3"] = ("a" :> "1")
  /\ Len(labelLog["x"]) = 2
  /\ labelLog["x"][2].id = "m1"
  /\ ~Adopted("m1")
  /\ heap["m1"] = Literal("m1")

(***************************************************************************)
(* C9: Apply(o1, ..., on) leaves the state that applying o1, then o2, ...,  *)
(* then on one at a time leaves, and touches no other accumulator; the     *)
(* final prefix (suffix) is the cut payload of the last prefix (suffix)    *)
(* option, or the prior value without one, and the labels agree with the   *)
(* last-applied mapping on every key it holds.                             *)
(***************************************************************************)
C9_AppliedInOrder ==
  pc = "idle" =>
    LET r  == OneAtATime(St(entry.accs[recv], entry.heap, FALSE), opts)
        lp == LastOfKind(opts, "WithNamePrefix")
        ls == LastOfKind(opts, "WithNameSuffix")
        ll == LastOfKind(opts, "WithExtraLabels")
    IN  /\ accs[recv] = r.o
        /\ heap = r.h
        /\ \A y \in Accs \ {recv} : accs[y] = entry.accs[y]
        /\ IF lp = 0 THEN accs[recv].NamePrefix = entry.accs[recv].NamePrefix
                     ELSE IsCutTo(accs[recv].NamePrefix, opts[lp].val, 218)
        /\ IF ls = 0 THEN accs[recv].NameSuffix = entry.accs[recv].NameSuffix
                     ELSE IsCutTo(accs[recv].NameSuffix, opts[ls].val, 7)
        /\ ll # 0 => \A k \in DOMAIN Entries(heap, opts[ll].val) :
                        /\ k \in DOMAIN Labels(recv)
                        /\ Labels(recv)[k] = Entries(heap, opts[ll].val)[k]
        /\ ll = 0 => accs[recv].ExtraLabels = entry.accs[recv].ExtraLabels

C9_Witness ==
  /\ pc = "idle"
  /\ Len(opts) = 3
  /\ opts[1] = Option("WithNamePrefix", Rep("x", 260))
  /\ opts[2] = Option("WithExtraLabels", "m2")
  /\ opts[3] = Option("WithNamePrefix", <<"k", "a", "r", "g", "o">>)
  /\ accs[recv].NamePrefix = <<"k", "a", "r", "g", "o">>
  /\ accs[recv].ExtraLabels = "m2"

(***************************************************************************)
(* C10: WithExtraLabels(m) on an accumulator whose ExtraLabels is unset    *)
(* makes the object m itself its ExtraLabels and writes nothing; on one    *)
(* whose ExtraLabels is set it writes m's entries into the existing        *)
(* object, which every accumulator holding that object then sees, and      *)
(* leaves m unmodified and not aliased.                                    *)
(***************************************************************************)
C10_AdoptThenCopy ==
  [][ (pc = "loop" /\ idx <= Len(opts) /\ opts[idx].kind = "WithExtraLabels") =>
        LET m   == opts[idx].val
            d   == accs[recv].ExtraLabels
            src == Entries(heap, m)
        IN  IF d = NIL
              THEN /\ accs'[recv].ExtraLabels = m
                   /\ heap' = heap
              ELSE /\ accs'[recv].ExtraLabels = d
                   /\ DOMAIN heap'[d] = (DOMAIN heap[d]) \cup (DOMAIN src)
                   /\ \A k \in DOMAIN src : heap'[d][k] = src[k]
                   /\ \A k \in (DOMAIN heap[d]) \ (DOMAIN src) : heap'[d][k] = heap[d][k]
                   /\ \A n \in MapIds \ {d} : heap'[n] = heap[n]
                   /\ \A y \in Accs : accs[y].ExtraLabels = d =>
                        /\ accs'[y].ExtraLabels = d
                        /\ Labels(y)' = heap'[d] ]_vars

C10_Witness ==
  /\ accs["x"].ExtraLabels = "m1"
  /\ accs["y"].ExtraLabels = "m1"
  /\ labelLog["x"] = << [id |-> "m1", entries |-> ("a" :> "1")] >>
  /\ Len(labelLog["y"]) = 2
  /\ labelLog["y"][2].id = "m2"
  /\ Labels("x") = ("a" :> "2") @@ ("b" :> "3")
  /\ heap["m2"] = Literal("m2")

====
